---- MODULE Spec2Model ----
(***************************************************************************)
(* Model of the concept graph (pkg/concepts Resource) and of the           *)
(* JavaScript types generator (pkg/generators/javascript) of the           *)
(* ocm-api-metamodel repository.                                           *)
(*                                                                         *)
(*   SpecConcepts  Resource.AddMethod / AddLocator and the lookups         *)
(*   SpecResource  the same with Resource.SetOwner / SetDoc / SetName      *)
(*   SpecDispatch  TypesGenerator.fieldType / getterType                   *)
(*   Spec          TypesGenerator.Run                                      *)
(***************************************************************************)
EXTENDS FiniteSets, Integers, Sequences, TLC

VARIABLES
    heap,       \* the Method and Locator objects that were constructed
    methods,    \* Resource.methods, per resource
    locators,   \* Resource.locators, per resource
    owner,      \* Method.owner / Locator.owner, per object
    resource,   \* Resource.owner, Resource.doc and Resource.name, per resource
    resourceCall, \* the last method of Resource that was called
    attribute,  \* the argument of the last fieldType / getterType call
    call,       \* which of the two was called last
    ref,        \* the *TypeReference the last call returned
    model,      \* TypesGenerator.model: the services of the model
    pc,         \* position of Run
    si,         \* index of the service the outer loop of Run is at
    vi,         \* index of the version the middle loop of Run is at
    ti,         \* index of the type the inner loop of Run is at
    buffer,     \* TypesGenerator.buffer
    written,    \* the files Buffer.Write wrote, in order
    reported,   \* number of errors sent to the Reporter
    errors,     \* TypesGenerator.errors
    result,     \* what Run returned
    ioFailure   \* the Buffer operation that the file system made fail

conceptVars == <<heap, methods, locators, owner, resource, resourceCall>>
dispatchVars == <<attribute, call, ref>>
runVars == <<model, pc, si, vi, ti, buffer, written, errors, result, ioFailure>>
vars == <<heap, methods, locators, owner, resource, resourceCall, attribute, call, ref, model, pc, si,
          vi, ti, buffer, written, reported, errors, result, ioFailure>>

----------------------------------------------------------------------------
(* Bounds *)

MaxChildren == 2    \* Method and Locator objects constructed
MaxAdds == 3        \* entries of the methods and locators of all resources
MaxReported == 3    \* errors the Reporter receives from direct calls
MaxTypes == 2       \* types of the model, over all versions
MaxAttributes == 1  \* attributes of a struct type

----------------------------------------------------------------------------
(* Names *)

\* Position of a word in the order of strings.Compare.
WordRank(w) ==
    CASE w = "cluster" -> 1
      [] w = "list" -> 2
      [] w = "metadata" -> 3
      [] w = "type" -> 4

\* The names given to methods and locators.
Names == {<<"cluster">>, <<"cluster", "metadata">>, <<"metadata">>}

RECURSIVE CompareFrom(_, _, _)
CompareFrom(a, b, i) ==
    IF i > Len(a) \/ i > Len(b)
    THEN IF Len(a) < Len(b) THEN -1 ELSE IF Len(a) > Len(b) THEN 1 ELSE 0
    ELSE IF WordRank(a[i]) < WordRank(b[i]) THEN -1
    ELSE IF WordRank(a[i]) > WordRank(b[i]) THEN 1
    ELSE CompareFrom(a, b, i + 1)

\* names.Compare: -1, 0 or 1, word by word, a proper prefix first.
Compare(a, b) == CompareFrom(a, b, 1)

\* Name.Equals: the same words in the same order.
Equals(a, b) ==
    /\ Len(a) = Len(b)
    /\ \A i \in 1..Len(a) : a[i] = b[i]

\* names.Cat: the words of a followed by the words of b.
Cat(a, b) == a \o b

----------------------------------------------------------------------------
(* Concept graph: Resource, Method, Locator *)

Resources == {"r1", "r2"}

\* The nil *Resource of an owner that was never set.
NoOwner == "nil"

\* The nil *Method or *Locator.
Nil == 0

Children == 1..MaxChildren

\* The versions that own resources, and the nil *Version.
Versions == {"v1"}

NoVersion == "nil"

\* The documentation texts; a new resource has the empty one.
Docs == {"", "Manages a cluster."}

\* The nil *names.Name of a resource whose name was not set.
NoName == <<>>

ResourceNames == {<<"cluster">>}

\* new(Resource): every field has its zero value.
NewResource == [owner |-> NoVersion, doc |-> "", name |-> NoName]

\* No method of Resource was called yet.
NoCall == [op |-> "none", nil |-> FALSE]

SetOwner(r, value) ==
    /\ resource' = [resource EXCEPT ![r].owner = value]
    /\ resourceCall' = [op |-> "SetOwner", nil |-> FALSE]
    /\ UNCHANGED <<heap, methods, locators, owner>>

SetDoc(r, value) ==
    /\ resource' = [resource EXCEPT ![r].doc = value]
    /\ resourceCall' = [op |-> "SetDoc", nil |-> FALSE]
    /\ UNCHANGED <<heap, methods, locators, owner>>

SetName(r, value) ==
    /\ resource' = [resource EXCEPT ![r].name = value]
    /\ resourceCall' = [op |-> "SetName", nil |-> FALSE]
    /\ UNCHANGED <<heap, methods, locators, owner>>

MethodObjects == [kind : {"method"}, name : Names, variable : {FALSE}]

LocatorObjects == [kind : {"locator"}, name : Names, variable : BOOLEAN]

MethodIds == {c \in Children : heap[c].kind = "method"}

LocatorIds == {c \in Children : heap[c].kind = "locator"}

\* MethodSlice.Less and LocatorSlice.Less, as ResourceSlice.Less.
Less(s, i, j) == Compare(heap[s[i]].name, heap[s[j]].name) = -1

IsSorted(s) == \A i, j \in 1..Len(s) : i < j => ~Less(s, j, i)

Count(s, x) == Cardinality({i \in 1..Len(s) : s[i] = x})

Range(s) == {s[i] : i \in 1..Len(s)}

\* sort.Sort: a sorted arrangement of the same elements; the order of
\* elements that compare equal is not determined.
SortOutcomes(s) ==
    {t \in [1..Len(s) -> Range(s)] :
        /\ \A x \in Range(s) : Count(t, x) = Count(s, x)
        /\ IsSorted(t)}

Methods(r) == methods[r]

Locators(r) == locators[r]

RECURSIVE Entries(_)
Entries(rs) ==
    IF rs = {} THEN 0
    ELSE LET r == CHOOSE x \in rs : TRUE
         IN Len(methods[r]) + Len(locators[r]) + Entries(rs \ {r})

AddMethodNoSort(r, method) ==
    /\ IF method # Nil
       THEN /\ Entries(Resources) < MaxAdds
            /\ methods' = [methods EXCEPT ![r] = Append(methods[r], method)]
            /\ owner' = [owner EXCEPT ![method] = r]
       ELSE UNCHANGED <<methods, owner>>
    /\ resourceCall' = [op |-> "AddMethod", nil |-> method = Nil]
    /\ UNCHANGED <<heap, locators, resource>>

\* AddMethod whose nil branch empties the methods of the resource.
AddMethodNilClears(r, method) ==
    /\ IF method # Nil
       THEN /\ Entries(Resources) < MaxAdds
            /\ \E sorted \in SortOutcomes(Append(methods[r], method)) :
                   methods' = [methods EXCEPT ![r] = sorted]
            /\ owner' = [owner EXCEPT ![method] = r]
       ELSE /\ methods' = [methods EXCEPT ![r] = <<>>]
            /\ UNCHANGED owner
    /\ resourceCall' = [op |-> "AddMethod", nil |-> method = Nil]
    /\ UNCHANGED <<heap, locators, resource>>

AddMethod(r, method) ==
    /\ IF method # Nil
       THEN /\ Entries(Resources) < MaxAdds
            /\ \E sorted \in SortOutcomes(Append(methods[r], method)) :
                   methods' = [methods EXCEPT ![r] = sorted]
            /\ owner' = [owner EXCEPT ![method] = r]
       ELSE UNCHANGED <<methods, owner>>
    /\ resourceCall' = [op |-> "AddMethod", nil |-> method = Nil]
    /\ UNCHANGED <<heap, locators, resource>>

FindMethod(r, name) ==
    LET hits == {i \in 1..Len(methods[r]) :
                     Equals(heap[methods[r][i]].name, name)}
    IN IF hits = {} THEN Nil
       ELSE methods[r][CHOOSE i \in hits : \A j \in hits : i <= j]

VariableLocator(r) ==
    LET hits == {i \in 1..Len(locators[r]) : heap[locators[r][i]].variable}
    IN IF hits = {} THEN Nil
       ELSE locators[r][CHOOSE i \in hits : \A j \in hits : i <= j]

IsConstant(locator) == ~heap[locator].variable

ConstantLocators(r) == SelectSeq(locators[r], IsConstant)

AddLocator(r, locator) ==
    /\ IF locator # Nil
       THEN /\ Entries(Resources) < MaxAdds
            /\ \E sorted \in SortOutcomes(Append(locators[r], locator)) :
                   locators' = [locators EXCEPT ![r] = sorted]
            /\ owner' = [owner EXCEPT ![locator] = r]
       ELSE UNCHANGED <<locators, owner>>
    /\ resourceCall' = [op |-> "AddLocator", nil |-> locator = Nil]
    /\ UNCHANGED <<heap, methods, resource>>

\* The objects are numbered methods first, then by name, then constant first.
ConstructedBefore(a, b) ==
    \/ a.kind = "method" /\ b.kind = "locator"
    \/ a.kind = b.kind /\ Compare(a.name, b.name) = -1
    \/ a.kind = b.kind /\ a.name = b.name /\ (b.variable \/ ~a.variable)

\* NewResource for every resource; the methods and the locators that the
\* caller built.
InitConcepts ==
    /\ heap \in [Children -> MethodObjects \cup LocatorObjects]
    /\ \A c, d \in Children : c < d => ConstructedBefore(heap[c], heap[d])
    /\ methods = [r \in Resources |-> <<>>]
    /\ locators = [r \in Resources |-> <<>>]
    /\ owner = [c \in Children |-> NoOwner]
    /\ resource = [r \in Resources |-> NewResource]
    /\ resourceCall = NoCall

\* The objects of a caller that builds methods and locators in turn.
BuiltInTurn ==
    [c \in Children |->
        IF c % 2 = 1
        THEN [kind |-> "method", name |-> <<"cluster">>, variable |-> FALSE]
        ELSE [kind |-> "locator", name |-> <<"metadata">>, variable |-> TRUE]]

\* NewResource for every resource, with the objects built in turn.
InitResource ==
    /\ heap = BuiltInTurn
    /\ methods = [r \in Resources |-> <<>>]
    /\ locators = [r \in Resources |-> <<>>]
    /\ owner = [c \in Children |-> NoOwner]
    /\ resource = [r \in Resources |-> NewResource]
    /\ resourceCall = NoCall

----------------------------------------------------------------------------
(* Types and type references *)

TypeNames == {<<"cluster">>, <<"metadata">>}

\* The kinds of concepts.Type; "undefined" is a Type whose kind was not set.
TypeKinds == {"scalar", "enum", "struct", "class", "list", "map", "undefined"}

IsScalar(typ) == typ.kind \in {"scalar", "enum"}

IsEnum(typ) == typ.kind = "enum"

IsStruct(typ) == typ.kind \in {"struct", "class"}

IsList(typ) == typ.kind = "list"

IsMap(typ) == typ.kind = "map"

AttributeTypes == [name : TypeNames, kind : TypeKinds]

Attributes == [type : AttributeTypes, link : BOOLEAN]

\* The nil *TypeReference.
NilReference == [form |-> "nil", name |-> <<>>]

\* &TypeReference{}
EmptyReference == [form |-> "empty", name |-> <<>>]

ValueReference(typ) == [form |-> "value", name |-> typ.name]

NullableReference(typ) == [form |-> "nullable", name |-> typ.name]

ListReference(typ) == [form |-> "list", name |-> typ.name]

\* Both functions yield the reference and the number of Reporter.Errorf calls.
getterTypeScalarNullable(attr) ==
    LET typ == attr.type
        found ==
            CASE IsScalar(typ) -> NullableReference(typ)
              [] IsStruct(typ) -> NullableReference(typ)
              [] IsList(typ) -> IF attr.link THEN ListReference(typ)
                                ELSE NullableReference(typ)
              [] IsMap(typ) -> NullableReference(typ)
              [] OTHER -> NilReference
    IN IF found = NilReference
       THEN [ref |-> EmptyReference, reported |-> 1]
       ELSE [ref |-> found, reported |-> 0]

getterType(attr) ==
    LET typ == attr.type
        found ==
            CASE IsScalar(typ) -> ValueReference(typ)
              [] IsStruct(typ) -> NullableReference(typ)
              [] IsList(typ) -> IF attr.link THEN ListReference(typ)
                                ELSE NullableReference(typ)
              [] IsMap(typ) -> NullableReference(typ)
              [] OTHER -> NilReference
    IN IF found = NilReference
       THEN [ref |-> EmptyReference, reported |-> 1]
       ELSE [ref |-> found, reported |-> 0]

fieldType(attr) ==
    LET typ == attr.type
        found ==
            CASE IsScalar(typ) -> NullableReference(typ)
              [] IsStruct(typ) -> NullableReference(typ)
              [] IsList(typ) -> IF attr.link THEN ListReference(typ)
                                ELSE NullableReference(typ)
              [] IsMap(typ) -> NullableReference(typ)
              [] OTHER -> NilReference
    IN IF found = NilReference
       THEN [ref |-> EmptyReference, reported |-> 1]
       ELSE [ref |-> found, reported |-> 0]

CallGetterType(attr) ==
    /\ reported + getterType(attr).reported <= MaxReported
    /\ attribute' = attr
    /\ call' = "getterType"
    /\ ref' = getterType(attr).ref
    /\ reported' = reported + getterType(attr).reported

CallFieldType(attr) ==
    /\ reported + fieldType(attr).reported <= MaxReported
    /\ attribute' = attr
    /\ call' = "fieldType"
    /\ ref' = fieldType(attr).ref
    /\ reported' = reported + fieldType(attr).reported

InitDispatch ==
    /\ attribute \in Attributes
    /\ call = "none"
    /\ ref = NilReference

----------------------------------------------------------------------------
(* The model that TypesGenerator.Run walks *)

ServiceNames == <<"accounts_mgmt", "clusters_mgmt">>

VersionNames == <<"v1", "v2">>

\* The number of versions of each service of the model.
Shapes == {<<>>, <<0, 1>>, <<2>>, <<1, 1>>}

\* nomenclator.Metadata and nomenclator.Type
Metadata == <<"metadata">>

Type == <<"type">>

RunAttributes ==
    {a \in Attributes : /\ a.type.kind \in {"scalar", "undefined"}
                        /\ a.type.name = <<"cluster">>
                        /\ ~a.link}

AttributeSeqs == UNION {[1..k -> RunAttributes] : k \in 0..MaxAttributes}

ModelTypes ==
    [name : TypeNames, kind : {"enum", "list"}, attributes : {<<>>}]
        \cup [name : TypeNames, kind : {"struct"}, attributes : AttributeSeqs]

\* Version.Types() is kept sorted by name: the lists of at most budget types.
SortedTypeSeqs ==
    [budget \in 0..MaxTypes |->
        {ts \in UNION {[1..k -> ModelTypes] : k \in 0..budget} :
            \A i, j \in 1..Len(ts) :
                i < j => Compare(ts[i].name, ts[j].name) \in {-1, 0}}]

TypeSeqs(budget) == SortedTypeSeqs[budget]

RECURSIVE VersionsIn(_, _)
VersionsIn(shape, k) ==
    IF k = 0 THEN 0 ELSE shape[k] + VersionsIn(shape, k - 1)

\* The model of a shape: its versions, in the order of the traversal, hold the
\* lists of types.
MakeModel(shape, typeLists) ==
    [s \in 1..Len(shape) |->
        [name |-> ServiceNames[s],
         versions |->
            [v \in 1..shape[s] |->
                [name |-> VersionNames[v],
                 types |-> typeLists[VersionsIn(shape, s - 1) + v]]]]]

----------------------------------------------------------------------------
(* Names, packages and buffers of the generator *)

RECURSIVE Join(_)
Join(words) ==
    IF Len(words) = 1 THEN words[1]
    ELSE words[1] \o "_" \o Join(Tail(words))

\* NamesCalculator.File: the words of the name joined into a file name.
File(name) == Join(name)

\* PackagesCalculator.VersionPackage: the service and the version under the base.
VersionPackage(service, version) == service.name \o "/" \o version.name

metadataFile == File(Cat(Metadata, Type))

typeFile(typ) == File(Cat(typ.name, Type))

NoBuffer == [package |-> "", file |-> "", body |-> <<>>]

NoFailure == [op |-> "none", unit |-> <<0, 0, 0>>]

NotReturned == [kind |-> "running", text |-> "", count |-> 0]

Success == [kind |-> "nil", text |-> "", count |-> 0]

\* The error that Buffer Build or Write returned.
IOError(op) == [kind |-> "io", text |-> op, count |-> 0]

\* fmt.Errorf("there were %d errors", n) and fmt.Errorf("there was 1 error")
AggregateError(n) ==
    IF n > 1 THEN [kind |-> "aggregate", text |-> "there were %d errors", count |-> n]
    ELSE [kind |-> "aggregate", text |-> "there was 1 error", count |-> 1]

CurrentService == model[si]

CurrentVersion == model[si].versions[vi]

CurrentType == model[si].versions[vi].types[ti]

CurrentUnit == <<si, vi, ti>>

\* Errors reported while the struct template calls getterType on each attribute.
RECURSIVE ReportedFor(_)
ReportedFor(attributes) ==
    IF attributes = <<>> THEN 0
    ELSE getterType(Head(attributes)).reported + ReportedFor(Tail(attributes))

----------------------------------------------------------------------------
(* TypesGenerator.Run *)

\* Build, with the model the caller supplied; Run is about to enter its loops.
InitRun ==
    /\ \E shape \in Shapes :
          \E first \in TypeSeqs(IF VersionsIn(shape, Len(shape)) >= 1
                                THEN MaxTypes ELSE 0) :
             \E second \in TypeSeqs(IF VersionsIn(shape, Len(shape)) >= 2
                                    THEN MaxTypes - Len(first) ELSE 0) :
                model = MakeModel(shape, <<first, second>>)
    /\ pc = "services"
    /\ si = 0
    /\ vi = 0
    /\ ti = 0
    /\ buffer = NoBuffer
    /\ written = <<>>
    /\ errors = 0
    /\ result = NotReturned
    /\ ioFailure = NoFailure

\* return err
ReturnError(op) ==
    /\ ioFailure' = [op |-> op, unit |-> CurrentUnit]
    /\ result' = IOError(op)
    /\ pc' = "done"

\* for _, service := range g.model.Services()
NextService ==
    /\ pc = "services"
    /\ IF si < Len(model)
       THEN /\ si' = si + 1
            /\ vi' = 0
            /\ pc' = "versions"
       ELSE /\ pc' = "check"
            /\ UNCHANGED <<si, vi>>
    /\ UNCHANGED <<model, ti, buffer, written, reported, errors, result, ioFailure>>

\* for _, version := range service.Versions()
NextVersion ==
    /\ pc = "versions"
    /\ IF vi < Len(CurrentService.versions)
       THEN /\ vi' = vi + 1
            /\ ti' = 0
            /\ pc' = "metadataBuild"
       ELSE /\ pc' = "services"
            /\ UNCHANGED <<vi, ti>>
    /\ UNCHANGED <<model, si, buffer, written, reported, errors, result, ioFailure>>

\* generateVersionMetadataTypeFile: NewBuffer()...Build()
BuildMetadataBuffer ==
    /\ pc = "metadataBuild"
    /\ \E ok \in BOOLEAN :
          IF ok
          THEN /\ buffer' = [package |-> VersionPackage(CurrentService, CurrentVersion),
                             file |-> metadataFile,
                             body |-> <<>>]
               /\ pc' = "metadataSource"
               /\ UNCHANGED <<result, ioFailure>>
          ELSE /\ ReturnError("Build")
               /\ UNCHANGED buffer
    /\ UNCHANGED <<model, si, vi, ti, written, reported, errors>>

generateVersionMetadataTypeSource ==
    /\ pc = "metadataSource"
    /\ buffer' = [buffer EXCEPT !.body = Append(@, "Metadata")]
    /\ pc' = "metadataWrite"
    /\ UNCHANGED <<model, si, vi, ti, written, reported, errors, result, ioFailure>>

\* generateVersionMetadataTypeFile: return g.buffer.Write(), and Run's test of it
WriteMetadataBuffer ==
    /\ pc = "metadataWrite"
    /\ \E ok \in BOOLEAN :
          IF ok
          THEN /\ written' = Append(written, [package |-> buffer.package,
                                              file |-> buffer.file,
                                              unit |-> CurrentUnit])
               /\ pc' = "types"
               /\ UNCHANGED <<result, ioFailure>>
          ELSE /\ ReturnError("Write")
               /\ UNCHANGED written
    /\ UNCHANGED <<model, si, vi, ti, buffer, reported, errors>>

\* The loop over the types without the switch on the kind of typ.
NextTypeEveryKind ==
    /\ pc = "types"
    /\ IF ti < Len(CurrentVersion.types)
       THEN /\ ti' = ti + 1
            /\ pc' = "typeBuild"
       ELSE /\ pc' = "versions"
            /\ UNCHANGED ti
    /\ UNCHANGED <<model, si, vi, buffer, written, reported, errors, result, ioFailure>>

\* for _, typ := range version.Types(), and the switch on the kind of typ
NextType ==
    /\ pc = "types"
    /\ IF ti < Len(CurrentVersion.types)
       THEN /\ ti' = ti + 1
            /\ pc' = IF \/ IsEnum(CurrentVersion.types[ti + 1])
                        \/ IsStruct(CurrentVersion.types[ti + 1])
                     THEN "typeBuild"
                     ELSE "types"
       ELSE /\ pc' = "versions"
            /\ UNCHANGED ti
    /\ UNCHANGED <<model, si, vi, buffer, written, reported, errors, result, ioFailure>>

\* generateTypeFile: NewBuffer()...Build()
BuildTypeBuffer ==
    /\ pc = "typeBuild"
    /\ \E ok \in BOOLEAN :
          IF ok
          THEN /\ buffer' = [package |-> VersionPackage(CurrentService, CurrentVersion),
                             file |-> typeFile(CurrentType),
                             body |-> <<>>]
               /\ pc' = "typeSource"
               /\ UNCHANGED <<result, ioFailure>>
          ELSE /\ ReturnError("Build")
               /\ UNCHANGED buffer
    /\ UNCHANGED <<model, si, vi, ti, written, reported, errors>>

generateTypeSourceFatal ==
    /\ pc = "typeSource"
    /\ IF IsEnum(CurrentType)
       THEN /\ buffer' = [buffer EXCEPT !.body = Append(@, "enum")]
            /\ UNCHANGED <<reported, result>>
            /\ pc' = "typeWrite"
       ELSE /\ buffer' = [buffer EXCEPT !.body = Append(@, "struct")]
            /\ reported' = reported + ReportedFor(CurrentType.attributes)
            /\ IF ReportedFor(CurrentType.attributes) > 0
               THEN /\ result' = AggregateError(ReportedFor(CurrentType.attributes))
                    /\ pc' = "done"
               ELSE /\ UNCHANGED result
                    /\ pc' = "typeWrite"
    /\ UNCHANGED <<model, si, vi, ti, written, errors, ioFailure>>

\* generateEnumTypeSource or generateStructTypeSource; the struct template
\* calls getterType on every attribute.
generateTypeSource ==
    /\ pc = "typeSource"
    /\ IF IsEnum(CurrentType)
       THEN /\ buffer' = [buffer EXCEPT !.body = Append(@, "enum")]
            /\ UNCHANGED reported
       ELSE /\ buffer' = [buffer EXCEPT !.body = Append(@, "struct")]
            /\ reported' = reported + ReportedFor(CurrentType.attributes)
    /\ pc' = "typeWrite"
    /\ UNCHANGED <<model, si, vi, ti, written, errors, result, ioFailure>>

WriteTypeBufferErrorIgnored ==
    /\ pc = "typeWrite"
    /\ \E ok \in BOOLEAN :
          IF ok
          THEN /\ written' = Append(written, [package |-> buffer.package,
                                              file |-> buffer.file,
                                              unit |-> CurrentUnit])
               /\ UNCHANGED ioFailure
          ELSE /\ ioFailure' = [op |-> "Write", unit |-> CurrentUnit]
               /\ UNCHANGED written
    /\ pc' = "types"
    /\ UNCHANGED <<model, si, vi, ti, buffer, reported, errors, result>>

\* generateTypeFile: return g.buffer.Write(), and Run's test of it
WriteTypeBuffer ==
    /\ pc = "typeWrite"
    /\ \E ok \in BOOLEAN :
          IF ok
          THEN /\ written' = Append(written, [package |-> buffer.package,
                                              file |-> buffer.file,
                                              unit |-> CurrentUnit])
               /\ pc' = "types"
               /\ UNCHANGED <<result, ioFailure>>
          ELSE /\ ReturnError("Write")
               /\ UNCHANGED written
    /\ UNCHANGED <<model, si, vi, ti, buffer, reported, errors>>

\* if g.errors > 0 { ... return err }; return nil
CheckErrors ==
    /\ pc = "check"
    /\ result' = IF errors > 0 THEN AggregateError(errors) ELSE Success
    /\ pc' = "done"
    /\ UNCHANGED <<model, si, vi, ti, buffer, written, reported, errors, ioFailure>>

----------------------------------------------------------------------------
(* Specifications *)

NoConcepts ==
    /\ heap = <<>>
    /\ methods = [r \in Resources |-> <<>>]
    /\ locators = [r \in Resources |-> <<>>]
    /\ owner = <<>>
    /\ resource = [r \in Resources |-> NewResource]
    /\ resourceCall = NoCall

NoCalls ==
    /\ attribute = [type |-> [name |-> <<"cluster">>, kind |-> "scalar"],
                    link |-> FALSE]
    /\ call = "none"
    /\ ref = NilReference

NoRun ==
    /\ model = <<>>
    /\ pc = "idle"
    /\ si = 0
    /\ vi = 0
    /\ ti = 0
    /\ buffer = NoBuffer
    /\ written = <<>>
    /\ errors = 0
    /\ result = NotReturned
    /\ ioFailure = NoFailure

InitC == InitConcepts /\ NoCalls /\ NoRun /\ reported = 0

NextConcepts ==
    \/ \E r \in Resources : \E method \in MethodIds \cup {Nil} :
          AddMethod(r, method) /\ UNCHANGED <<dispatchVars, runVars, reported>>
    \/ \E r \in Resources : \E locator \in LocatorIds \cup {Nil} :
          AddLocator(r, locator) /\ UNCHANGED <<dispatchVars, runVars, reported>>

SpecConcepts == InitC /\ [][NextConcepts]_vars

InitR == InitResource /\ NoCalls /\ NoRun /\ reported = 0

NextResource ==
    \/ \E r \in Resources : \E method \in MethodIds \cup {Nil} :
          AddMethod(r, method) /\ UNCHANGED <<dispatchVars, runVars, reported>>
    \/ \E r \in Resources : \E locator \in LocatorIds \cup {Nil} :
          AddLocator(r, locator) /\ UNCHANGED <<dispatchVars, runVars, reported>>
    \/ \E r \in Resources : \E value \in Versions \cup {NoVersion} :
          SetOwner(r, value) /\ UNCHANGED <<dispatchVars, runVars, reported>>
    \/ \E r \in Resources : \E value \in Docs :
          SetDoc(r, value) /\ UNCHANGED <<dispatchVars, runVars, reported>>
    \/ \E r \in Resources : \E value \in ResourceNames \cup {NoName} :
          SetName(r, value) /\ UNCHANGED <<dispatchVars, runVars, reported>>

SpecResource == InitR /\ [][NextResource]_vars

InitD == NoConcepts /\ InitDispatch /\ NoRun /\ reported = 0

NextDispatch ==
    \/ \E attr \in Attributes :
          CallGetterType(attr) /\ UNCHANGED <<conceptVars, runVars>>
    \/ \E attr \in Attributes :
          CallFieldType(attr) /\ UNCHANGED <<conceptVars, runVars>>

SpecDispatch == InitD /\ [][NextDispatch]_vars

Init == NoConcepts /\ NoCalls /\ InitRun /\ reported = 0

Next ==
    \/ NextService /\ UNCHANGED <<conceptVars, dispatchVars>>
    \/ NextVersion /\ UNCHANGED <<conceptVars, dispatchVars>>
    \/ BuildMetadataBuffer /\ UNCHANGED <<conceptVars, dispatchVars>>
    \/ generateVersionMetadataTypeSource /\ UNCHANGED <<conceptVars, dispatchVars>>
    \/ WriteMetadataBuffer /\ UNCHANGED <<conceptVars, dispatchVars>>
    \/ NextType /\ UNCHANGED <<conceptVars, dispatchVars>>
    \/ BuildTypeBuffer /\ UNCHANGED <<conceptVars, dispatchVars>>
    \/ generateTypeSource /\ UNCHANGED <<conceptVars, dispatchVars>>
    \/ WriteTypeBuffer /\ UNCHANGED <<conceptVars, dispatchVars>>
    \/ CheckErrors /\ UNCHANGED <<conceptVars, dispatchVars>>

Spec == Init /\ [][Next]_vars

----------------------------------------------------------------------------
(* Properties of the concept graph, under SpecConcepts *)

NameOf(c) == heap[c].name

\* C1: after every AddMethod, Methods() is in ascending order of names.Compare,
\* and FindMethod(n) is a method of the resource named n when there is one and
\* nil when there is none.
MethodsSortedAndFound ==
    \A r \in Resources :
        /\ \A i, j \in 1..Len(Methods(r)) :
              i < j => Compare(NameOf(Methods(r)[i]), NameOf(Methods(r)[j])) \in {-1, 0}
        /\ \A n \in Names :
              IF \E i \in 1..Len(Methods(r)) : NameOf(Methods(r)[i]) = n
              THEN /\ FindMethod(r, n) \in Range(Methods(r))
                   /\ NameOf(FindMethod(r, n)) = n
              ELSE FindMethod(r, n) = Nil

\* A resource holds two methods of different names: the second name is found,
\* and a third name is not.
TwoMethodsAdded ==
    \E r \in Resources :
        /\ Len(Methods(r)) = 2
        /\ NameOf(Methods(r)[1]) # NameOf(Methods(r)[2])
        /\ FindMethod(r, NameOf(Methods(r)[2])) = Methods(r)[2]
        /\ \E n \in Names : FindMethod(r, n) = Nil

\* C6: Locators() is sorted, VariableLocator() is the first variable locator in
\* that order or nil, and ConstantLocators() is, in the same order, every
\* locator of Locators() that VariableLocator() does not return.
ConstantLocatorsAreComplement ==
    \A r \in Resources :
        LET NotTheVariable(l) == l # VariableLocator(r)
            variables == {i \in 1..Len(Locators(r)) : heap[Locators(r)[i]].variable}
        IN /\ \A i, j \in 1..Len(Locators(r)) :
                 i < j => Compare(NameOf(Locators(r)[i]), NameOf(Locators(r)[j])) \in {-1, 0}
           /\ IF variables = {} THEN VariableLocator(r) = Nil
              ELSE \E i \in variables :
                      /\ \A j \in variables : i <= j
                      /\ VariableLocator(r) = Locators(r)[i]
           /\ ConstantLocators(r) = SelectSeq(Locators(r), NotTheVariable)

\* C7: at most one locator of a resource is marked variable.
AtMostOneVariableLocator ==
    \A r \in Resources :
        Cardinality({l \in Range(Locators(r)) : heap[l].variable}) <= 1

\* C8: every method of r.Methods() and every locator of r.Locators() has r as
\* its owner: the owner set when the child was added is never reassigned.
OwnerIsTheResource ==
    \A r \in Resources :
        \A c \in Range(Methods(r)) \cup Range(Locators(r)) : owner[c] = r

----------------------------------------------------------------------------
(* Properties of the nil additions, under SpecResource *)

\* C11: AddMethod(nil) and AddLocator(nil) complete without an error and leave
\* the methods, the locators, the name, the doc and the owner of every resource
\* exactly as they were before the call.
NilAdditionsAreNoOps ==
    [][(resourceCall'.op \in {"AddMethod", "AddLocator"} /\ resourceCall'.nil)
          => UNCHANGED <<methods, locators, resource>>]_vars

\* The last call added nil, and there is a resource that has a method, a
\* locator, an owner, a doc and a name to lose.
NilAddedToFilledResource ==
    /\ resourceCall.op \in {"AddMethod", "AddLocator"}
    /\ resourceCall.nil
    /\ \E r \in Resources :
          /\ Len(Methods(r)) > 0
          /\ Len(Locators(r)) > 0
          /\ resource[r].owner # NoVersion
          /\ resource[r].doc # ""
          /\ resource[r].name # NoName

----------------------------------------------------------------------------
(* Properties of the attribute type dispatch, under SpecDispatch *)

\* C9: fieldType yields the nullable reference for a scalar, struct or map
\* type, getterType the value reference for a scalar and the nullable reference
\* for a struct or map; for a list both yield the list reference when the
\* attribute is a link and the nullable reference when it is not.
AttributeTypeDispatch ==
    LET typ == attribute.type
        listRef == IF attribute.link THEN ListReference(typ)
                   ELSE NullableReference(typ)
    IN /\ call = "fieldType" =>
             /\ IsScalar(typ) \/ IsStruct(typ) \/ IsMap(typ) =>
                   ref = NullableReference(typ)
             /\ IsList(typ) => ref = listRef
       /\ call = "getterType" =>
             /\ IsScalar(typ) => ref = ValueReference(typ)
             /\ IsStruct(typ) \/ IsMap(typ) => ref = NullableReference(typ)
             /\ IsList(typ) => ref = listRef

\* getterType was called on a scalar attribute, after a call on an attribute
\* that could not be classified.
ScalarGetterCalled ==
    /\ call = "getterType"
    /\ IsScalar(attribute.type)
    /\ ref.form = "value"
    /\ reported > 0

----------------------------------------------------------------------------
(* Properties of TypesGenerator.Run, under Spec *)

\* The units of the model: the metadata file of every version and the file of
\* every enum or struct type.
ExpectedUnits ==
    {u \in (1..Len(model)) \X (1..Len(VersionNames)) \X (0..MaxTypes) :
        /\ u[2] <= Len(model[u[1]].versions)
        /\ u[3] <= Len(model[u[1]].versions[u[2]].types)
        /\ \/ u[3] = 0
           \/ IsEnum(model[u[1]].versions[u[2]].types[u[3]])
           \/ IsStruct(model[u[1]].versions[u[2]].types[u[3]])}

WrittenUnits == {written[i].unit : i \in 1..Len(written)}

Before(u, v) ==
    \/ u[1] < v[1]
    \/ u[1] = v[1] /\ u[2] < v[2]
    \/ u[1] = v[1] /\ u[2] = v[2] /\ u[3] < v[3]

\* The unit is a struct type with an attribute that getterType cannot classify.
Unclassifiable(u) ==
    /\ u[3] > 0
    /\ ReportedFor(model[u[1]].versions[u[2]].types[u[3]].attributes) > 0

\* Run has gone past the unit.
Passed(u) ==
    \/ Before(u, CurrentUnit)
    \/ u = CurrentUnit /\ pc \in {"types", "versions", "services", "check", "done"}

AggregateCountsReportedErrors ==
    pc = "done" /\ ioFailure = NoFailure =>
        result = IF reported = 0 THEN Success ELSE AggregateError(reported)

\* C4: an unclassifiable attribute increments the error counter of the
\* generator and the file of its unit is not written.
UnclassifiableUnitAbandoned ==
    /\ errors = reported
    /\ \A i \in 1..Len(written) : ~Unclassifiable(written[i].unit)

\* C5: when a Buffer Build or Write fails, Run returns that error at once: it
\* stays at the failing unit, only earlier units are written, and the result is
\* the I/O error, which Run returns in no other case.
IOErrorAbortsRun ==
    /\ ioFailure # NoFailure =>
          /\ pc = "done"
          /\ result = IOError(ioFailure.op)
          /\ CurrentUnit = ioFailure.unit
          /\ \A i \in 1..Len(written) : Before(written[i].unit, ioFailure.unit)
    /\ result.kind = "io" => ioFailure # NoFailure

\* A Buffer operation failed after a file was written and before a unit that
\* the model still holds.
FailedWithUnitsLeft ==
    /\ ioFailure # NoFailure
    /\ Len(written) >= 1
    /\ \E u \in ExpectedUnits : Before(ioFailure.unit, u)

\* The package and the file of a unit.
PathOf(u) ==
    [package |-> VersionPackage(model[u[1]], model[u[1]].versions[u[2]]),
     file |-> IF u[3] = 0 THEN metadataFile
              ELSE typeFile(model[u[1]].versions[u[2]].types[u[3]])]

PathOfBuffer == [package |-> buffer.package, file |-> buffer.file]

\* C12: Run handles one unit at a time: the Buffer of a unit is built, filled
\* by Emit and written before the Buffer of the next unit is built. The units
\* are written in the order of the services, of the versions and of Types(),
\* the metadata unit of a version before its type units, one unit for each
\* enum or struct type and none for a type of another kind.
UnitsOneAtATimeInOrder ==
    /\ pc \in {"metadataBuild", "typeBuild"} =>
          \/ buffer = NoBuffer /\ written = <<>>
          \/ /\ Len(buffer.body) = 1
             /\ written # <<>>
             /\ PathOfBuffer = [package |-> written[Len(written)].package,
                                file |-> written[Len(written)].file]
    /\ pc \in {"metadataSource", "metadataWrite", "typeSource", "typeWrite"} =>
          /\ PathOfBuffer = PathOf(CurrentUnit)
          /\ Len(buffer.body) = IF pc \in {"metadataSource", "typeSource"} THEN 0 ELSE 1
          /\ CurrentUnit \notin WrittenUnits
    /\ \A i, j \in 1..Len(written) :
          i < j => Before(written[i].unit, written[j].unit)
    /\ \A i \in 1..Len(written) :
          /\ written[i].unit \in ExpectedUnits
          /\ PathOf(written[i].unit) = [package |-> written[i].package,
                                        file |-> written[i].file]
    /\ \A u \in ExpectedUnits :
          (Before(u, CurrentUnit) \/ (ioFailure = NoFailure /\ Passed(u)))
              => u \in WrittenUnits
    /\ \A u \in WrittenUnits : Before(u, CurrentUnit) \/ u = CurrentUnit

\* Run returned nil after it wrote the metadata unit and then a type unit of
\* one version, went on to a second version, and skipped a type that is
\* neither an enum nor a struct.
SkippedTypeBetweenUnits ==
    /\ pc = "done"
    /\ result = Success
    /\ \E i, j, k \in 1..Len(written) :
          /\ i < j /\ j < k
          /\ written[i].unit[3] = 0
          /\ written[j].unit[3] > 0
          /\ <<written[i].unit[1], written[i].unit[2]>>
                = <<written[j].unit[1], written[j].unit[2]>>
          /\ <<written[k].unit[1], written[k].unit[2]>>
                # <<written[j].unit[1], written[j].unit[2]>>
    /\ \E s \in 1..Len(model) : \E v \in 1..Len(model[s].versions) :
          \E t \in 1..Len(model[s].versions[v].types) :
             <<s, v, t>> \notin ExpectedUnits

\* C10: no two units of a run are written to the same package and file.
ExclusiveOutputPaths ==
    \A i, j \in 1..Len(written) :
        i # j => <<written[i].package, written[i].file>>
                    # <<written[j].package, written[j].file>>

====
